---- MODULE Spec2Model ----
(***************************************************************************)
(* A model of src/src/lib/sanitize.ts: the in-memory RateLimiter class and *)
(* the string sanitizers with validateFileUpload.                          *)
(*                                                                         *)
(* Spec      : the RateLimiter state machine (isAllowed, reset, the clock).*)
(* SanSpec   : the sanitizers as pure functions applied to a drawn input.  *)
(* RaceSpec  : isAllowed run statement by statement by two callers.        *)
(* FixedSpec : isAllowed and reset called with one maxAttempts and         *)
(*             windowMs throughout, with the history of the calls.         *)
(***************************************************************************)
EXTENDS Integers, Sequences, FiniteSets, TLC

VARIABLES
    attempts,      \* RateLimiter.attempts : Map<identifier, {count, resetTime}>
    now,           \* the value Date.now() returns
    call,          \* the last RateLimiter method call: op, identifier, maxAttempts
                   \* and, as ghost tags, the case it met and what preceded it
    ret,           \* the value the last isAllowed call returned
    win,           \* ghost: per entry, the maxAttempts of the call that created it
                   \* and the calls that returned true since, or Mixed once a
                   \* call in that window came with another maxAttempts
    input,         \* the value handed to the sanitizers
    fn,            \* the sanitizer call in progress: its name and the arguments
                   \* that are not the input
    out,           \* what that call returned
    limit,         \* the maxAttempts and windowMs every call is made with
    log,           \* ghost: per identifier and clock reading, the calls that
                   \* read it and returned true
    heap,          \* the entry objects { count, resetTime } that the map or a
                   \* caller still refers to, by reference
    entries,       \* RateLimiter.attempts as references: identifier -> object
    pc,            \* per caller, the line of isAllowed it is about to run
    local,         \* per caller, its identifier, now and userAttempts
    overlapped,    \* ghost: per identifier, whether a call on it began while
                   \* another call on it was in progress
    started,       \* the number of statement-by-statement calls begun
    resets         \* ghost: per identifier, the clock readings at which reset
                   \* was called on it

limiterVars == <<attempts, now, call, ret, win>>
sanVars == <<input, fn, out>>
concVars == <<limit, log, heap, entries, pc, local, overlapped, started,
              resets>>
vars == <<attempts, now, call, ret, win, input, fn, out,
          limit, log, heap, entries, pc, local, overlapped, started, resets>>

(***************************************************************************)
(* Bounds of the model.                                                    *)
(***************************************************************************)
MaxTime == 2
MaxAttemptsArg == 2
MaxWindow == 1
MaxCalls == 3

Identifiers == {"user1", "user2"}
Times == 0..MaxTime
Callers == {"c1", "c2"}
MaxAttemptsValues == 0..MaxAttemptsArg
WindowValues == 0..MaxWindow

(***************************************************************************)
(* Map helpers: a Map is a function whose DOMAIN is the set of its keys.   *)
(***************************************************************************)
EmptyMap == [k \in {} |-> 0]

MapSet(m, k, v) == [j \in DOMAIN m \cup {k} |-> IF j = k THEN v ELSE m[j]]

MapDelete(m, k) == [j \in DOMAIN m \ {k} |-> m[j]]

(***************************************************************************)
(* RateLimiter.isAllowed, sanitize.ts 243-258, as two functions of the map *)
(* m, the arguments and the clock reading t: the map it leaves and the     *)
(* value it returns.                                                       *)
(***************************************************************************)
\* faulty variant: the window already ends when the clock reaches resetTime
StartsWindowAtReset(m, identifier, t) ==
    \/ identifier \notin DOMAIN m
    \/ t >= m[identifier].resetTime

\* line 247: !userAttempts || now > userAttempts.resetTime
StartsWindow(m, identifier, t) ==
    \/ identifier \notin DOMAIN m
    \/ t > m[identifier].resetTime

\* faulty variant: the limit is tested with > instead of >=
LimitReachedOffByOne(m, identifier, maxAttempts) ==
    m[identifier].count > maxAttempts

\* line 252: userAttempts.count >= maxAttempts
LimitReached(m, identifier, maxAttempts) ==
    m[identifier].count >= maxAttempts

\* faulty variant: a denied call pushes the window forward
isAllowedMapExtending(m, identifier, maxAttempts, windowMs, t) ==
    IF StartsWindow(m, identifier, t)
    THEN MapSet(m, identifier, [count |-> 1, resetTime |-> t + windowMs])
    ELSE IF LimitReached(m, identifier, maxAttempts)
         THEN [m EXCEPT ![identifier].resetTime = t + windowMs]
         ELSE [m EXCEPT ![identifier].count = @ + 1]

\* faulty variant: a denied call starts a new window
isAllowedMapRestarting(m, identifier, maxAttempts, windowMs, t) ==
    IF StartsWindow(m, identifier, t)
    THEN MapSet(m, identifier, [count |-> 1, resetTime |-> t + windowMs])
    ELSE IF LimitReached(m, identifier, maxAttempts)
         THEN MapSet(m, identifier, [count |-> 0, resetTime |-> t + windowMs])
         ELSE [m EXCEPT ![identifier].count = @ + 1]

isAllowedMap(m, identifier, maxAttempts, windowMs, t) ==
    IF StartsWindow(m, identifier, t)
    THEN MapSet(m, identifier, [count |-> 1, resetTime |-> t + windowMs])
    ELSE IF LimitReached(m, identifier, maxAttempts)
         THEN m
         ELSE [m EXCEPT ![identifier].count = @ + 1]

isAllowedResult(m, identifier, maxAttempts, windowMs, t) ==
    IF StartsWindow(m, identifier, t)
    THEN TRUE
    ELSE IF LimitReached(m, identifier, maxAttempts)
         THEN FALSE
         ELSE TRUE

\* faulty variant: reset clears the whole map
resetMapClear(m, identifier) == EmptyMap

\* RateLimiter.reset, sanitize.ts 260-262
resetMap(m, identifier) == MapDelete(m, identifier)

(***************************************************************************)
(* JavaScript values handed to and returned by the sanitizers.  A string   *)
(* is the sequence of its characters; the control characters carry their   *)
(* names.                                                                  *)
(***************************************************************************)
Str(s) == [t |-> "string", s |-> s, a |-> <<>>]
Arr(a) == [t |-> "array", s |-> <<>>, a |-> a]
Num(digits) == [t |-> "number", s |-> digits, a |-> <<>>]
Null == [t |-> "null", s |-> <<>>, a |-> <<>>]
Undefined == [t |-> "undefined", s |-> <<>>, a |-> <<>>]
\* the TypeError a method call on a value without that method raises
Throw == [t |-> "throw", s |-> <<>>, a |-> <<>>]

\* !input
Falsy(v) ==
    \/ v.t \in {"null", "undefined"}
    \/ v.t = "string" /\ v.s = <<>>
    \/ v.t = "number" /\ v.s = <<"0">>

\* faulty variant: the typeof test is left out
RejectsInputFalsyOnly(v) == Falsy(v)

\* !input || typeof input !== 'string'
RejectsInput(v) == Falsy(v) \/ v.t # "string"

\* \s, and what String.prototype.trim strips
WhiteSpace == {" ", "TAB", "LF", "VT", "FF", "CR", "NBSP"}
\* [\x00-\x08\x0B\x0C\x0E-\x1F\x7F]
TextControls == {"NUL", "VT", "FF", "ESC", "DEL"}
\* [\x00-\x1F]
FileControls == {"NUL", "TAB", "LF", "VT", "FF", "CR", "ESC"}

TextMaxLength == 500
SearchMaxLength == 100
FileNameMaxLength == 255
TagMaxLength == 50
MaxTags == 20
MaxFileSize == 10 * 1024 * 1024

(***************************************************************************)
(* The String methods the sanitizers use.                                  *)
(***************************************************************************)
Removed == "(removed)"

DropRemoved(marked) == SelectSeq(marked, LAMBDA c : c # Removed)

\* the least index in lo..hi whose character is no white space, 0 if none
RECURSIVE FirstNonSpace(_, _, _)
FirstNonSpace(s, lo, hi) ==
    IF lo > hi THEN 0
    ELSE IF lo = hi THEN (IF s[lo] \in WhiteSpace THEN 0 ELSE lo)
    ELSE LET mid == (lo + hi) \div 2
             l == FirstNonSpace(s, lo, mid)
         IN  IF l # 0 THEN l ELSE FirstNonSpace(s, mid + 1, hi)

RECURSIVE LastNonSpace(_, _, _)
LastNonSpace(s, lo, hi) ==
    IF lo > hi THEN 0
    ELSE IF lo = hi THEN (IF s[lo] \in WhiteSpace THEN 0 ELSE lo)
    ELSE LET mid == (lo + hi) \div 2
             r == LastNonSpace(s, mid + 1, hi)
         IN  IF r # 0 THEN r ELSE LastNonSpace(s, lo, mid)

\* String.prototype.trim
Trim(s) ==
    LET first == FirstNonSpace(s, 1, Len(s))
    IN  IF first = 0 THEN <<>>
        ELSE SubSeq(s, first, LastNonSpace(s, 1, Len(s)))

\* s.replace(/[set]/g, '')
RemoveChars(s, set) == SelectSeq(s, LAMBDA c : c \notin set)

\* s.replace(/c/g, r) on s[lo..hi]
RECURSIVE ReplaceRange(_, _, _, _, _)
ReplaceRange(s, c, r, lo, hi) ==
    IF lo > hi THEN <<>>
    ELSE IF lo = hi THEN (IF s[lo] = c THEN r ELSE <<s[lo]>>)
    ELSE LET mid == (lo + hi) \div 2
         IN  ReplaceRange(s, c, r, lo, mid) \o ReplaceRange(s, c, r, mid + 1, hi)

ReplaceChar(s, c, r) == ReplaceRange(s, c, r, 1, Len(s))

\* s.substring(0, n)
Substring0(s, n) == IF Len(s) <= n THEN s ELSE SubSeq(s, 1, n)

\* the number of consecutive dots that end just before position i
RECURSIVE DotsBefore(_, _)
DotsBefore(s, i) ==
    IF i > 1 /\ s[i - 1] = "." THEN 1 + DotsBefore(s, i - 1) ELSE 0

\* s.replace(/\.\./g, ''): the matches are the pairs of dots taken from the
\* left of every run of dots, so a dot stays only as the last of an odd run
RemoveDotDot(s) ==
    DropRemoved([i \in 1..Len(s) |->
        IF s[i] # "." THEN s[i]
        ELSE IF DotsBefore(s, i) % 2 = 0 /\ (i = Len(s) \/ s[i + 1] # ".")
             THEN s[i]
             ELSE Removed])

\* s.replace(/\s+/g, '_')
CollapseSpaces(s) ==
    DropRemoved([i \in 1..Len(s) |->
        IF s[i] \notin WhiteSpace THEN s[i]
        ELSE IF i > 1 /\ s[i - 1] \in WhiteSpace THEN Removed
             ELSE "_"])

\* s.replace(/<[^>]*>/g, ''): a match runs from a '<' to the first '>' after
\* it; position i lies in one iff a '>' follows at or after i and a '<'
\* stands at or before i with no '>' between that '<' and i
StripTags(s) ==
    DropRemoved([i \in 1..Len(s) |->
        IF /\ \E j \in i..Len(s) : s[j] = ">"
           /\ \E p \in 1..i : s[p] = "<" /\ \A k \in p..(i - 1) : s[k] # ">"
        THEN Removed
        ELSE s[i]])

\* s.split(c) on s[lo..hi]
RECURSIVE SplitRange(_, _, _, _)
SplitRange(s, c, lo, hi) ==
    IF lo > hi THEN << <<>> >>
    ELSE IF lo = hi THEN (IF s[lo] = c THEN << <<>>, <<>> >> ELSE << <<s[lo]>> >>)
    ELSE LET mid == (lo + hi) \div 2
             l == SplitRange(s, c, lo, mid)
             r == SplitRange(s, c, mid + 1, hi)
         IN  SubSeq(l, 1, Len(l) - 1) \o << l[Len(l)] \o r[1] >> \o Tail(r)

Split(s, c) == SplitRange(s, c, 1, Len(s))

\* s starts with prefix
StartsWith(s, prefix) ==
    /\ Len(s) >= Len(prefix)
    /\ \A i \in 1..Len(prefix) : s[i] = prefix[i]

(***************************************************************************)
(* The sanitizers, sanitize.ts 25-141.                                     *)
(***************************************************************************)
\* DOMPurify is a dependency, not code of this module: its result is left
\* open between keeping the markup and removing all of it.
DomPurifySanitize(s) == {s, StripTags(s)}

\* sanitizeHtml: the set of values a call may return
sanitizeHtml(v, hasWindow) ==
    IF RejectsInput(v) THEN {Str(<<>>)}
    ELSE IF v.t # "string" THEN {Throw}
    ELSE IF hasWindow THEN {Str(r) : r \in DomPurifySanitize(v.s)}
    ELSE {Str(StripTags(v.s))}

\* faulty variant: the ampersand is escaped last
EscapeHtmlAmpersandLast(s) ==
    LET s1 == ReplaceChar(s, "<", <<"&", "l", "t", ";">>)
        s2 == ReplaceChar(s1, ">", <<"&", "g", "t", ";">>)
        s3 == ReplaceChar(s2, "\"", <<"&", "q", "u", "o", "t", ";">>)
        s4 == ReplaceChar(s3, "'", <<"&", "#", "x", "2", "7", ";">>)
        s5 == ReplaceChar(s4, "/", <<"&", "#", "x", "2", "F", ";">>)
    IN  ReplaceChar(s5, "&", <<"&", "a", "m", "p", ";">>)

\* lines 60-65: the six replace calls, the ampersand first
EscapeHtml(s) ==
    LET s1 == ReplaceChar(s, "&", <<"&", "a", "m", "p", ";">>)
        s2 == ReplaceChar(s1, "<", <<"&", "l", "t", ";">>)
        s3 == ReplaceChar(s2, ">", <<"&", "g", "t", ";">>)
        s4 == ReplaceChar(s3, "\"", <<"&", "q", "u", "o", "t", ";">>)
        s5 == ReplaceChar(s4, "'", <<"&", "#", "x", "2", "7", ";">>)
    IN  ReplaceChar(s5, "/", <<"&", "#", "x", "2", "F", ";">>)

sanitizeText(v) ==
    IF RejectsInput(v) THEN Str(<<>>)
    ELSE IF v.t # "string" THEN Throw
    ELSE Str(Substring0(EscapeHtml(RemoveChars(Trim(v.s), TextControls)),
                        TextMaxLength))

sanitizeSearchQuery(v) ==
    IF RejectsInput(v) THEN Str(<<>>)
    ELSE IF v.t # "string" THEN Throw
    ELSE Str(Substring0(RemoveChars(Trim(v.s),
                            {"<", ">", "\"", "'", "&"} \cup TextControls),
                        SearchMaxLength))

sanitizeFileName(v) ==
    IF RejectsInput(v) THEN Str(<<>>)
    ELSE IF v.t # "string" THEN Throw
    ELSE LET s1 == RemoveDotDot(Trim(v.s))
             s2 == RemoveChars(s1, {"/", "\\"})
             s3 == RemoveChars(s2, {"<", ">", ":", "\"", "|", "?", "*"}
                                    \cup FileControls)
         IN  Str(Substring0(CollapseSpaces(s3), FileNameMaxLength))

\* faulty variant: a tag of exactly 50 characters is dropped
KeepsTagExclusive(tag) == Len(tag) > 0 /\ Len(tag) < TagMaxLength

\* tag.length > 0 && tag.length <= 50
KeepsTag(tag) == Len(tag) > 0 /\ Len(tag) <= TagMaxLength

sanitizeTags(v) ==
    IF RejectsInput(v) THEN Arr(<<>>)
    ELSE IF v.t # "string" THEN Throw
    ELSE LET parts == Split(v.s, ",")
             texts == [i \in 1..Len(parts) |-> sanitizeText(Str(parts[i])).s]
             kept == SelectSeq(texts, KeepsTag)
         IN  Arr(Substring0(kept, MaxTags))

\* /^(https?:\/\/|\/)/.test(s)
UrlPattern(s) ==
    \/ StartsWith(s, <<"h", "t", "t", "p", ":", "/", "/">>)
    \/ StartsWith(s, <<"h", "t", "t", "p", "s", ":", "/", "/">>)
    \/ StartsWith(s, <<"/">>)

sanitizeUrl(v) ==
    IF RejectsInput(v) THEN Str(<<>>)
    ELSE IF v.t # "string" THEN Throw
    ELSE LET sanitized == Trim(v.s)
         IN  IF ~UrlPattern(sanitized) THEN Str(<<>>)
             ELSE Str(RemoveChars(sanitized, {"<", ">", "\"", "'", "BACKTICK"}))

(***************************************************************************)
(* validateFileUpload, sanitize.ts 271-308.  A File has a byte size, a     *)
(* MIME type and a name.                                                   *)
(***************************************************************************)
AllowedTypes ==
    {"image/jpeg", "image/jpg", "image/png", "image/gif", "image/webp"}

SizeError == "File size exceeds 10MB limit"
TypeError == "Invalid file type. Only JPEG, PNG, GIF, and WebP are allowed"
NameError == "Invalid file name"

\* faulty variant: a file of exactly 10 MiB is refused
ExceedsSizeLimitInclusive(size) == size >= MaxFileSize

\* file.size > 10 * 1024 * 1024
ExceedsSizeLimit(size) == size > MaxFileSize

validateFileUpload(file) ==
    LET e1 == IF ExceedsSizeLimit(file.size) THEN <<SizeError>> ELSE <<>>
        e2 == IF file.type \notin AllowedTypes THEN e1 \o <<TypeError>> ELSE e1
        sanitizedName == sanitizeFileName(file.name)
        errors == IF Falsy(sanitizedName) THEN e2 \o <<NameError>> ELSE e2
    IN  [isValid |-> Len(errors) = 0,
         sanitizedName |-> sanitizedName,
         errors |-> errors]

(***************************************************************************)
(* ValidationSchemas, sanitize.ts 146-185: zod string schemas.  min 0      *)
(* stands for a schema without .min(), hasMax FALSE for one without        *)
(* .max().                                                                 *)
(***************************************************************************)
ValidationSchemas ==
    [photoTitle |->
        [min |-> 1, hasMax |-> TRUE, max |-> 100, optional |-> FALSE,
         transform |-> "sanitizeText"],
     photoDescription |->
        [min |-> 0, hasMax |-> TRUE, max |-> 500, optional |-> TRUE,
         transform |-> "sanitizeText"],
     searchQuery |->
        [min |-> 0, hasMax |-> TRUE, max |-> 100, optional |-> TRUE,
         transform |-> "sanitizeSearchQuery"],
     tags |->
        [min |-> 0, hasMax |-> FALSE, max |-> 0, optional |-> TRUE,
         transform |-> "sanitizeTags"],
     fileName |->
        [min |-> 1, hasMax |-> TRUE, max |-> 255, optional |-> FALSE,
         transform |-> "sanitizeFileName"],
     galleryName |->
        [min |-> 1, hasMax |-> TRUE, max |-> 100, optional |-> FALSE,
         transform |-> "sanitizeText"],
     photographerName |->
        [min |-> 1, hasMax |-> TRUE, max |-> 100, optional |-> FALSE,
         transform |-> "sanitizeText"],
     copyrightNotice |->
        [min |-> 0, hasMax |-> TRUE, max |-> 200, optional |-> TRUE,
         transform |-> "sanitizeText"]]

SchemaNames == DOMAIN ValidationSchemas

\* the ZodError that parse throws
ZodError == [t |-> "ZodError", s |-> <<>>, a |-> <<>>]

\* the sanitizer a schema's transform names
ApplySanitizer(name, v) ==
    CASE name = "sanitizeText" -> sanitizeText(v)
      [] name = "sanitizeSearchQuery" -> sanitizeSearchQuery(v)
      [] name = "sanitizeFileName" -> sanitizeFileName(v)
      [] name = "sanitizeTags" -> sanitizeTags(v)

\* .transform(sanitizer) of a required schema; of an optional one,
\* .transform(value => value ? sanitizer(value) : empty)
Transform(schema, v) ==
    IF ~schema.optional THEN ApplySanitizer(schema.transform, v)
    ELSE IF ~Falsy(v) THEN ApplySanitizer(schema.transform, v)
    ELSE IF schema.transform = "sanitizeTags" THEN Arr(<<>>)
    ELSE Str(<<>>)

\* faulty variant: max is taken as exclusive, as the messages word it
LengthInRangeExclusive(schema, length) ==
    /\ length >= schema.min
    /\ schema.hasMax => length < schema.max

\* .min(n) and .max(n) of z.string(): n <= length, length <= n
LengthInRange(schema, length) ==
    /\ length >= schema.min
    /\ schema.hasMax => length <= schema.max

\* schema.parse(v): z.string() takes strings only, .optional() lets
\* undefined through to the transform
parse(schema, v) ==
    IF v.t = "undefined"
    THEN IF schema.optional THEN Transform(schema, v) ELSE ZodError
    ELSE IF v.t # "string" THEN ZodError
    ELSE IF ~LengthInRange(schema, Len(v.s)) THEN ZodError
    ELSE Transform(schema, v)

(***************************************************************************)
(* CSP_DIRECTIVES and buildCSPHeader, sanitize.ts 190-235.  The object is  *)
(* the sequence of its entries in insertion order, which is the order      *)
(* Object.entries walks string keys in; every string is the sequence of    *)
(* its characters.                                                         *)
(***************************************************************************)
\* 'self'
SrcSelf == <<"'", "s", "e", "l", "f", "'">>

\* 'none'
SrcNone == <<"'", "n", "o", "n", "e", "'">>

\* 'unsafe-eval'
SrcUnsafeEval == <<"'", "u", "n", "s", "a", "f", "e", "-", "e", "v", "a",
                   "l", "'">>

\* 'unsafe-inline'
SrcUnsafeInline == <<"'", "u", "n", "s", "a", "f", "e", "-", "i", "n", "l",
                     "i", "n", "e", "'">>

\* https://vercel.live
SrcVercelLive == <<"h", "t", "t", "p", "s", ":", "/", "/", "v", "e", "r",
                   "c", "e", "l", ".", "l", "i", "v", "e">>

\* https://fonts.googleapis.com
SrcGoogleFonts == <<"h", "t", "t", "p", "s", ":", "/", "/", "f", "o", "n",
                    "t", "s", ".", "g", "o", "o", "g", "l", "e", "a", "p",
                    "i", "s", ".", "c", "o", "m">>

\* https://fonts.gstatic.com
SrcGstatic == <<"h", "t", "t", "p", "s", ":", "/", "/", "f", "o", "n", "t",
                "s", ".", "g", "s", "t", "a", "t", "i", "c", ".", "c", "o",
                "m">>

\* data:
SrcData == <<"d", "a", "t", "a", ":">>

\* blob:
SrcBlob == <<"b", "l", "o", "b", ":">>

\* https:
SrcHttps == <<"h", "t", "t", "p", "s", ":">>

CSP_DIRECTIVES ==
    <<\* default-src
      [directive |->
          <<"d", "e", "f", "a", "u", "l", "t", "-", "s", "r", "c">>,
       sources |-> <<SrcSelf>>],
      \* script-src
      [directive |->
          <<"s", "c", "r", "i", "p", "t", "-", "s", "r", "c">>,
       sources |-> <<SrcSelf, SrcUnsafeEval, SrcUnsafeInline, SrcVercelLive>>],
      \* style-src
      [directive |->
          <<"s", "t", "y", "l", "e", "-", "s", "r", "c">>,
       sources |-> <<SrcSelf, SrcUnsafeInline, SrcGoogleFonts>>],
      \* font-src
      [directive |->
          <<"f", "o", "n", "t", "-", "s", "r", "c">>,
       sources |-> <<SrcSelf, SrcGstatic, SrcData>>],
      \* img-src
      [directive |->
          <<"i", "m", "g", "-", "s", "r", "c">>,
       sources |-> <<SrcSelf, SrcData, SrcBlob, SrcHttps>>],
      \* media-src
      [directive |->
          <<"m", "e", "d", "i", "a", "-", "s", "r", "c">>,
       sources |-> <<SrcSelf, SrcBlob, SrcData>>],
      \* object-src
      [directive |->
          <<"o", "b", "j", "e", "c", "t", "-", "s", "r", "c">>,
       sources |-> <<SrcNone>>],
      \* frame-src
      [directive |->
          <<"f", "r", "a", "m", "e", "-", "s", "r", "c">>,
       sources |-> <<SrcNone>>],
      \* base-uri
      [directive |->
          <<"b", "a", "s", "e", "-", "u", "r", "i">>,
       sources |-> <<SrcSelf>>],
      \* form-action
      [directive |->
          <<"f", "o", "r", "m", "-", "a", "c", "t", "i", "o", "n">>,
       sources |-> <<SrcSelf>>],
      \* frame-ancestors
      [directive |->
          <<"f", "r", "a", "m", "e", "-", "a", "n", "c", "e", "s", "t",
            "o", "r", "s">>,
       sources |-> <<SrcNone>>],
      \* upgrade-insecure-requests
      [directive |->
          <<"u", "p", "g", "r", "a", "d", "e", "-", "i", "n", "s", "e",
            "c", "u", "r", "e", "-", "r", "e", "q", "u", "e", "s", "t",
            "s">>,
       sources |-> <<>>]>>

\* Array.prototype.join: the parts with sep between neighbours
RECURSIVE Join(_, _)
Join(parts, sep) ==
    IF parts = <<>> THEN <<>>
    ELSE IF Len(parts) = 1 THEN parts[1]
    ELSE parts[1] \o sep \o Join(Tail(parts), sep)

\* faulty variant: no test for an empty source list
ClauseAlwaysSpaced(entry) ==
    entry.directive \o <<" ">> \o Join(entry.sources, <<" ">>)

\* the callback of map: directive, or `${directive} ${sources.join(' ')}`
Clause(entry) ==
    IF Len(entry.sources) = 0 THEN entry.directive
    ELSE entry.directive \o <<" ">> \o Join(entry.sources, <<" ">>)

buildCSPHeader ==
    Join([i \in 1..Len(CSP_DIRECTIVES) |-> Clause(CSP_DIRECTIVES[i])],
         <<";", " ">>)

(***************************************************************************)
(* The inputs the sanitizers are tried on.                                 *)
(***************************************************************************)
MaxLen == 3

Sigma == {"a", "&", "<", ">", "/", ".", " ", "NUL", ","}

ShortStrings == UNION {[1..n -> Sigma] : n \in 0..MaxLen}

Examples ==
    {<<".", ".", "/", ".", ".", "/", "e", "t", "c", "/", "p", "a", "s", "s", "w", "d">>,
     <<"j", "a", "v", "a", "s", "c", "r", "i", "p", "t", ":", "a", "l", "e", "r", "t", "(", "1", ")">>,
     <<"/", "g", "a", "l", "l", "e", "r", "y", "/", "4", "2">>,
     <<"h", "t", "t", "p", "s", ":", "/", "/", "e", "x", "a", "m", "p", "l", "e", ".", "c", "o", "m", "/", "x", "\"", "y">>,
     <<"a", ",", "b", ",", "b", ",", "c">>,
     <<"/", "/", "e", "v", "i", "l", ".", "c", "o", "m">>,
     <<"h", "t", "t", "p", ":", "/", "/", "a", ".", "b">>,
     <<"H", "T", "T", "P", ":", "/", "/", "a", ".", "b">>,
     <<" ", "/", "a", " ">>,
     <<"<", "s", "c", "r", "i", "p", "t", ">", "a", "l", "e", "r", "t", "(", "'", "x", "'", ")",
       "<", "/", "s", "c", "r", "i", "p", "t", ">">>,
     <<"a", "VT", "b", "FF", "ESC", "c", "DEL", "TAB", "d", "'", "\"">>}

\* n copies of u
Rep(u, n) == [i \in 1..(n * Len(u)) |-> u[((i - 1) % Len(u)) + 1]]

RepUnits == {<<"a">>, <<"&">>, <<"a", ",">>, <<",", "&">>}

RepCounts == {10, 11, 20, 21, 22, 50, 51}

LongStrings == {Rep(u, n) : u \in RepUnits, n \in RepCounts}

\* strings whose lengths lie at the schemas' limits, and strings that
\* escape to 500 characters and more
BoundaryCounts == {100, 101, 200, 201, 255, 256, 500, 501}

BoundaryUnits == {<<"&">>, <<"a", "&">>}

BoundaryStrings == {Rep(<<"a">>, n) : n \in BoundaryCounts}
                       \cup {Rep(u, n) : u \in BoundaryUnits, n \in {100, 101}}

NonStrings == {Null, Undefined, Num(<<"0">>), Num(<<"4", "2">>),
               Arr(<<>>), Arr(<< <<"a">> >>)}

Inputs == {Str(s) : s \in ShortStrings \cup Examples \cup LongStrings
                             \cup BoundaryStrings}
              \cup NonStrings

FileSizes == {0, MaxFileSize - 1, MaxFileSize, MaxFileSize + 1}

FileTypes == AllowedTypes \cup {"image/svg+xml", ""}

(***************************************************************************)
(* Ghost state of the RateLimiter: what the claims speak of and the code   *)
(* does not store.                                                         *)
(***************************************************************************)
NoFn == [name |-> "none", hasWindow |-> FALSE, size |-> 0, type |-> "",
         schema |-> "none"]

NoCall == [op |-> "none", id |-> "user1", maxAttempts |-> 0, case |-> "none",
           wasDenied |-> FALSE, afterReset |-> "no"]

Mixed == [maxAttempts |-> -1, allowed |-> 0]

\* which branch condition of isAllowed a call on m at time t meets
CallCase(m, identifier, t) ==
    IF identifier \notin DOMAIN m THEN "noEntry"
    ELSE IF m[identifier].resetTime < t THEN "expired"
    ELSE IF m[identifier].resetTime = t THEN "atReset"
    ELSE "inWindow"

\* the last call was an isAllowed call on identifier that returned false
JustDenied(identifier) ==
    call.op = "isAllowed" /\ call.id = identifier /\ ~ret

WinAfter(identifier, maxAttempts, newMap, r) ==
    IF identifier \notin DOMAIN attempts
       \/ newMap[identifier].resetTime # attempts[identifier].resetTime
       \/ newMap[identifier].count < attempts[identifier].count
    THEN MapSet(win, identifier,
                [maxAttempts |-> maxAttempts, allowed |-> IF r THEN 1 ELSE 0])
    ELSE IF win[identifier] = Mixed \/ win[identifier].maxAttempts # maxAttempts
         THEN [win EXCEPT ![identifier] = Mixed]
         ELSE [win EXCEPT ![identifier].allowed = IF r THEN @ + 1 ELSE @]

\* before any call: no limits chosen, nothing logged, no caller in a call
NoLimit == [maxAttempts |-> 0, windowMs |-> 0]

EmptyLog == [identifier \in Identifiers |-> [t \in Times |-> 0]]

NoLocal == [id |-> "user1", now |-> 0, ref |-> 0]

ConcIdle ==
    /\ log = EmptyLog
    /\ heap = EmptyMap
    /\ entries = EmptyMap
    /\ pc = [c \in Callers |-> "idle"]
    /\ local = [c \in Callers |-> NoLocal]
    /\ overlapped = [identifier \in Identifiers |-> FALSE]
    /\ started = 0
    /\ resets = [identifier \in Identifiers |-> {}]

Init ==
    /\ attempts = EmptyMap
    /\ now = 0
    /\ call = NoCall
    /\ ret = FALSE
    /\ win = EmptyMap
    /\ input = Undefined
    /\ fn = NoFn
    /\ out = Undefined
    /\ limit = NoLimit
    /\ ConcIdle

\* Date.now() advances between calls; it never runs backwards.
Tick ==
    /\ now < MaxTime
    /\ now' = now + 1
    /\ UNCHANGED <<attempts, call, ret, win>>
    /\ UNCHANGED sanVars
    /\ UNCHANGED concVars

isAllowed(identifier, maxAttempts, windowMs) ==
    LET newMap == isAllowedMap(attempts, identifier, maxAttempts, windowMs, now)
        r == isAllowedResult(attempts, identifier, maxAttempts, windowMs, now)
    IN  /\ attempts' = newMap
        /\ ret' = r
        /\ call' = [op |-> "isAllowed", id |-> identifier,
                    maxAttempts |-> maxAttempts,
                    case |-> CallCase(attempts, identifier, now),
                    wasDenied |-> JustDenied(identifier),
                    afterReset |-> IF call.op = "reset" /\ call.id = identifier
                                   THEN IF call.wasDenied THEN "denied" ELSE "reset"
                                   ELSE "no"]
        /\ win' = WinAfter(identifier, maxAttempts, newMap, r)
        /\ UNCHANGED now
        /\ UNCHANGED sanVars
        /\ UNCHANGED concVars

reset(identifier) ==
    /\ attempts' = resetMap(attempts, identifier)
    /\ call' = [op |-> "reset", id |-> identifier, maxAttempts |-> 0,
                case |-> CallCase(attempts, identifier, now),
                wasDenied |-> JustDenied(identifier), afterReset |-> "no"]
    /\ win' = MapDelete(win, identifier)
    /\ UNCHANGED <<now, ret>>
    /\ UNCHANGED sanVars
    /\ UNCHANGED concVars

CallIsAllowed ==
    \E identifier \in Identifiers, maxAttempts \in MaxAttemptsValues,
       windowMs \in WindowValues :
        isAllowed(identifier, maxAttempts, windowMs)

CallReset == \E identifier \in Identifiers : reset(identifier)

Next ==
    \/ Tick
    \/ CallIsAllowed
    \/ CallReset

Spec == Init /\ [][Next]_vars

(***************************************************************************)
(* isAllowed, sanitize.ts 243-258, one statement at a time.  Each caller   *)
(* runs the statements of its call in order and any other caller may run   *)
(* between two of them.  A caller's userAttempts is a reference to the     *)
(* entry object it got from the map: it reads and writes that object even  *)
(* after another caller has put a new one in the map; an object nothing    *)
(* refers to any more is dropped from the heap.  The JavaScript            *)
(* runtime runs a synchronous call to completion, which is the behaviour   *)
(* with overlapped FALSE throughout; the others are those of a host that   *)
(* preempts.                                                               *)
(***************************************************************************)
Limits == [maxAttempts : 1..MaxAttemptsArg, windowMs : WindowValues]

RaceInit ==
    /\ attempts = EmptyMap
    /\ now = 0
    /\ call = NoCall
    /\ ret = FALSE
    /\ win = EmptyMap
    /\ input = Undefined
    /\ fn = NoFn
    /\ out = Undefined
    /\ limit \in Limits
    /\ ConcIdle

InCall(c, identifier) == pc[c] # "idle" /\ local[c].id = identifier

\* the call returns r and its locals are gone: a true result is logged at
\* the call's clock reading
Returns(c, r) ==
    /\ ret' = r
    /\ pc' = [pc EXCEPT ![c] = "idle"]
    /\ local' = [local EXCEPT ![c] = NoLocal]
    /\ log' = IF r THEN [log EXCEPT ![local[c].id][local[c].now] = @ + 1]
              ELSE log
    /\ UNCHANGED overlapped

\* a reference no object of the heap has
FreshRef ==
    CHOOSE r \in 1..(Cardinality(DOMAIN heap) + 1) : r \notin DOMAIN heap

\* the objects of h that the map e or the locals l of a caller refer to
Collect(h, e, l) ==
    LET referenced == {e[identifier] : identifier \in DOMAIN e}
                        \cup {l[c].ref : c \in Callers}
    IN  [r \in DOMAIN h \cap referenced |-> h[r]]

\* the map as the caller sees it through userAttempts
Deref(c) ==
    IF local[c].ref = 0 THEN EmptyMap
    ELSE MapSet(EmptyMap, local[c].id, heap[local[c].ref].obj)

\* faulty variant: a new window starts counting at 0
NewEntryCountZero(t, windowMs) == [count |-> 0, resetTime |-> t + windowMs]

\* line 248: { count: 1, resetTime: now + windowMs }
NewEntry(t, windowMs) == [count |-> 1, resetTime |-> t + windowMs]

\* line 244: const now = Date.now()
Line244(c, identifier) ==
    /\ pc[c] = "idle"
    /\ started < MaxCalls
    /\ started' = started + 1
    /\ pc' = [pc EXCEPT ![c] = "L245"]
    /\ local' = [local EXCEPT ![c] = [id |-> identifier, now |-> now, ref |-> 0]]
    /\ overlapped' =
          IF \E d \in Callers \ {c} : InCall(d, identifier)
          THEN [overlapped EXCEPT ![identifier] = TRUE]
          ELSE overlapped
    /\ UNCHANGED <<ret, log, heap, entries>>

\* line 245: const userAttempts = this.attempts.get(identifier)
Line245(c) ==
    /\ pc[c] = "L245"
    /\ UNCHANGED started
    /\ pc' = [pc EXCEPT ![c] = "L247"]
    /\ local' = [local EXCEPT ![c].ref =
                    IF local[c].id \in DOMAIN entries
                    THEN entries[local[c].id] ELSE 0]
    /\ UNCHANGED <<ret, log, heap, entries, overlapped>>

\* lines 247-250: the test, and this.attempts.set(...); return true
Line247(c) ==
    /\ pc[c] = "L247"
    /\ UNCHANGED started
    /\ IF StartsWindow(Deref(c), local[c].id, local[c].now)
       THEN /\ entries' = MapSet(entries, local[c].id, FreshRef)
            /\ Returns(c, TRUE)
            /\ heap' = Collect(
                    MapSet(heap, FreshRef,
                           [obj |-> NewEntry(local[c].now, limit.windowMs),
                            key |-> local[c].id]),
                    entries', local')
       ELSE /\ pc' = [pc EXCEPT ![c] = "L252"]
            /\ UNCHANGED <<ret, log, heap, entries, local, overlapped>>

\* lines 252-254: the test, and return false
Line252(c) ==
    /\ pc[c] = "L252"
    /\ UNCHANGED started
    /\ IF LimitReached(Deref(c), local[c].id, limit.maxAttempts)
       THEN /\ Returns(c, FALSE)
            /\ UNCHANGED entries
            /\ heap' = Collect(heap, entries', local')
       ELSE /\ pc' = [pc EXCEPT ![c] = "L256"]
            /\ UNCHANGED <<ret, log, heap, entries, local, overlapped>>

\* lines 256-257: userAttempts.count++; return true
Line256(c) ==
    /\ pc[c] = "L256"
    /\ UNCHANGED started
    /\ Returns(c, TRUE)
    /\ UNCHANGED entries
    /\ heap' = Collect([heap EXCEPT ![local[c].ref].obj.count = @ + 1],
                       entries', local')

RaceFrame ==
    UNCHANGED <<attempts, now, call, win, limit, resets>> /\ UNCHANGED sanVars

StepLine244 ==
    \E c \in Callers, identifier \in Identifiers :
        Line244(c, identifier) /\ RaceFrame

StepLine245 == \E c \in Callers : Line245(c) /\ RaceFrame

StepLine247 == \E c \in Callers : Line247(c) /\ RaceFrame

StepLine252 == \E c \in Callers : Line252(c) /\ RaceFrame

StepLine256 == \E c \in Callers : Line256(c) /\ RaceFrame

RaceNext ==
    \/ Tick
    \/ StepLine244
    \/ StepLine245
    \/ StepLine247
    \/ StepLine252
    \/ StepLine256

RaceSpec == RaceInit /\ [][RaceNext]_vars

(***************************************************************************)
(* The RateLimiter called with one maxAttempts >= 1 and one windowMs       *)
(* throughout, on one identifier, each call run to completion.  log keeps  *)
(* the clock readings of the calls that returned true, resets those of     *)
(* the reset calls.  Calls at one clock reading are followed up to one     *)
(* more than twice maxAttempts allowed ones.                               *)
(***************************************************************************)
FixedIdentifiers == {"user1"}

FixedInit == RaceInit

FixedIsAllowed ==
    \E identifier \in FixedIdentifiers :
        LET r == isAllowedResult(attempts, identifier, limit.maxAttempts,
                                 limit.windowMs, now)
        IN  /\ log[identifier][now] <= 2 * limit.maxAttempts
            /\ attempts' = isAllowedMap(attempts, identifier, limit.maxAttempts,
                                        limit.windowMs, now)
            /\ ret' = r
            /\ log' = IF r THEN [log EXCEPT ![identifier][now] = @ + 1] ELSE log
            /\ UNCHANGED <<now, call, win>>
            /\ UNCHANGED sanVars
            /\ UNCHANGED <<limit, heap, entries, pc, local, overlapped, started,
                           resets>>

FixedReset ==
    \E identifier \in FixedIdentifiers :
        /\ attempts' = resetMap(attempts, identifier)
        /\ resets' = [resets EXCEPT ![identifier] = @ \cup {now}]
        /\ UNCHANGED <<now, call, ret, win>>
        /\ UNCHANGED sanVars
        /\ UNCHANGED <<limit, log, heap, entries, pc, local, overlapped, started>>

FixedNext ==
    \/ Tick
    \/ FixedIsAllowed
    \/ FixedReset

FixedSpec == FixedInit /\ [][FixedNext]_vars

(***************************************************************************)
(* The sanitizers' specification: an input is drawn, and each function is  *)
(* called on it and returns.                                               *)
(***************************************************************************)
SanInit ==
    /\ attempts = EmptyMap
    /\ now = 0
    /\ call = NoCall
    /\ ret = FALSE
    /\ win = EmptyMap
    /\ input \in Inputs
    /\ fn = NoFn
    /\ out = Undefined
    /\ limit = NoLimit
    /\ ConcIdle

Called(name, result) ==
    /\ fn.name = "none"
    /\ fn' = [fn EXCEPT !.name = name]
    /\ out' = result
    /\ UNCHANGED input
    /\ UNCHANGED limiterVars
    /\ UNCHANGED concVars

CallSanitizeHtml ==
    \E hasWindow \in BOOLEAN :
        \E result \in sanitizeHtml(input, hasWindow) :
            /\ fn.name = "none"
            /\ fn' = [fn EXCEPT !.name = "sanitizeHtml", !.hasWindow = hasWindow]
            /\ out' = result
            /\ UNCHANGED input
            /\ UNCHANGED limiterVars
            /\ UNCHANGED concVars

CallSanitizeText == Called("sanitizeText", sanitizeText(input))

CallSanitizeSearchQuery == Called("sanitizeSearchQuery", sanitizeSearchQuery(input))

CallSanitizeFileName == Called("sanitizeFileName", sanitizeFileName(input))

CallSanitizeTags == Called("sanitizeTags", sanitizeTags(input))

CallSanitizeUrl == Called("sanitizeUrl", sanitizeUrl(input))

\* a File's name is a string
CallValidateFileUpload ==
    \E size \in FileSizes, type \in FileTypes :
        /\ fn.name = "none"
        /\ input.t = "string"
        /\ fn' = [fn EXCEPT !.name = "validateFileUpload",
                            !.size = size, !.type = type]
        /\ out' = validateFileUpload([size |-> size, type |-> type, name |-> input])
        /\ UNCHANGED input
        /\ UNCHANGED limiterVars
        /\ UNCHANGED concVars

CallParse ==
    \E schema \in SchemaNames :
        /\ fn.name = "none"
        /\ fn' = [fn EXCEPT !.name = "parse", !.schema = schema]
        /\ out' = parse(ValidationSchemas[schema], input)
        /\ UNCHANGED input
        /\ UNCHANGED limiterVars
        /\ UNCHANGED concVars

CallBuildCSPHeader ==
    /\ fn.name = "none"
    /\ Called("buildCSPHeader", Str(buildCSPHeader))

Return ==
    /\ fn.name # "none"
    /\ fn' = NoFn
    /\ out' = Undefined
    /\ UNCHANGED input
    /\ UNCHANGED limiterVars
    /\ UNCHANGED concVars

SanNext ==
    \/ CallSanitizeHtml
    \/ CallSanitizeText
    \/ CallSanitizeSearchQuery
    \/ CallSanitizeFileName
    \/ CallSanitizeTags
    \/ CallSanitizeUrl
    \/ CallValidateFileUpload
    \/ CallParse
    \/ CallBuildCSPHeader
    \/ Return

SanSpec == SanInit /\ [][SanNext]_vars

(***************************************************************************)
(* Claims about the RateLimiter, checked under Spec.                       *)
(***************************************************************************)
InWindowCall(identifier) ==
    /\ call.op = "isAllowed"
    /\ call.id = identifier
    /\ call.case \in {"atReset", "inWindow"}

\* C1: in a window whose calls all came with the same maxAttempts >= 1, at
\* most maxAttempts calls returned true since the entry was created, a call
\* that follows a denied call in that window is denied too, and the stored
\* count lies between 1 and maxAttempts.
C1_WindowBound ==
    \A identifier \in DOMAIN attempts :
        (win[identifier] # Mixed /\ win[identifier].maxAttempts >= 1) =>
            /\ win[identifier].allowed <= win[identifier].maxAttempts
            /\ attempts[identifier].count >= 1
            /\ attempts[identifier].count <= win[identifier].maxAttempts
            /\ (InWindowCall(identifier) /\ call.wasDenied) => ~ret

\* C1 witness: a window with maxAttempts = 2 in which two calls were allowed
\* and the third, the last call, was denied.
C1_Witness ==
    \E identifier \in DOMAIN attempts :
        /\ win[identifier] = [maxAttempts |-> 2, allowed |-> 2]
        /\ InWindowCall(identifier)
        /\ ~ret

\* (isAllowed records its arguments in call, so a step is an isAllowed step
\* only for the identifier and maxAttempts that call' holds.)
\* C2: an isAllowed call that finds no entry, or an entry whose resetTime is
\* strictly earlier than now, returns true and leaves count = 1 and
\* resetTime = now + windowMs; a call made when now equals resetTime keeps the
\* entry's resetTime and counts against the old window.
C2_FreshWindow ==
    [][\A identifier \in {call'.id}, maxAttempts \in {call'.maxAttempts},
          windowMs \in WindowValues :
          isAllowed(identifier, maxAttempts, windowMs) =>
            /\ (identifier \notin DOMAIN attempts
                \/ attempts[identifier].resetTime < now) =>
                  /\ ret'
                  /\ attempts'[identifier] =
                        [count |-> 1, resetTime |-> now + windowMs]
            /\ (identifier \in DOMAIN attempts
                /\ attempts[identifier].resetTime = now) =>
                  /\ attempts'[identifier].resetTime = now
                  /\ ret' = (attempts[identifier].count < maxAttempts)
                  /\ attempts'[identifier].count =
                        IF ret' THEN attempts[identifier].count + 1
                                ELSE attempts[identifier].count]_vars

\* C2 witness: an identifier whose previous call was denied is allowed again,
\* with count 1, by a call made after its window expired.
C2_Witness ==
    /\ call.op = "isAllowed"
    /\ call.case = "expired"
    /\ call.wasDenied
    /\ ret
    /\ attempts[call.id].count = 1

\* C3: an isAllowed call that returns false leaves the attempts map as it was.
C3_DenialKeepsMap ==
    [][\A identifier \in {call'.id}, maxAttempts \in {call'.maxAttempts},
          windowMs \in WindowValues :
          (~ret' /\ isAllowed(identifier, maxAttempts, windowMs)) =>
              attempts' = attempts]_vars

\* C3 witness: a denied call, made with windowMs > 0 before the window's end
\* while the other identifier has an entry too.
C3_Witness ==
    /\ call.op = "isAllowed"
    /\ ~ret
    /\ call.case = "inWindow"
    /\ DOMAIN attempts = Identifiers

\* C4: reset(identifier) leaves the identifier without an entry and every
\* other entry as it was; an identifier without an entry stays so until
\* isAllowed is called for it, and that call returns true and stores
\* count = 1, resetTime = now + windowMs.
C4_Reset ==
    [][\A identifier \in Identifiers :
          /\ reset(identifier) =>
                /\ identifier \notin DOMAIN attempts'
                /\ DOMAIN attempts' = DOMAIN attempts \ {identifier}
                /\ \A other \in DOMAIN attempts' :
                      attempts'[other] = attempts[other]
          /\ identifier \notin DOMAIN attempts =>
                \/ identifier \notin DOMAIN attempts'
                \/ \E maxAttempts \in MaxAttemptsValues, windowMs \in WindowValues :
                      /\ isAllowed(identifier, maxAttempts, windowMs)
                      /\ ret'
                      /\ attempts'[identifier] =
                            [count |-> 1, resetTime |-> now + windowMs]]_vars

\* C4 witness: the identifier was being denied, was reset, and its next call
\* was allowed with count 1.
C4_Witness ==
    /\ call.op = "isAllowed"
    /\ call.afterReset = "denied"
    /\ ret
    /\ attempts[call.id].count = 1

(***************************************************************************)
(* Claims about the sanitizers and validateFileUpload, checked under       *)
(* SanSpec.                                                                *)
(***************************************************************************)
SanitizerNames == {"sanitizeHtml", "sanitizeText", "sanitizeSearchQuery",
                   "sanitizeFileName", "sanitizeTags", "sanitizeUrl"}

\* C5: sanitizeText applied to its own output returns that output, for every
\* input string shorter than the 500-character cap; so do the other
\* string-valued transforms of ValidationSchemas, sanitizeSearchQuery and
\* sanitizeFileName.
C5_Idempotent ==
    /\ (fn.name = "sanitizeText" /\ input.t = "string"
        /\ Len(input.s) < TextMaxLength) => sanitizeText(out) = out
    /\ (fn.name = "sanitizeSearchQuery" /\ input.t = "string") =>
            sanitizeSearchQuery(out) = out
    /\ (fn.name = "sanitizeFileName" /\ input.t = "string") =>
            sanitizeFileName(out) = out

\* s holds two dots in a row
HasDotDot(s) == \E i \in 1..(Len(s) - 1) : s[i] = "." /\ s[i + 1] = "."

\* C6: the output of sanitizeFileName holds no path separator and no "..".
C6_NoTraversal ==
    (fn.name = "sanitizeFileName" /\ input.t = "string") =>
        /\ \A i \in 1..Len(out.s) : out.s[i] \notin {"/", "\\"}
        /\ ~HasDotDot(out.s)

\* an absolute http:// or https:// URL
IsAbsoluteHttpUrl(s) ==
    \/ StartsWith(s, <<"h", "t", "t", "p", ":", "/", "/">>)
    \/ StartsWith(s, <<"h", "t", "t", "p", "s", ":", "/", "/">>)

\* a path from the root of the same site: it starts with one '/', not with
\* the "//" that opens a network-path reference to another host (RFC 3986,
\* section 4.2)
IsRootRelativePath(s) ==
    /\ StartsWith(s, <<"/">>)
    /\ ~StartsWith(s, <<"/", "/">>)

\* C7: sanitizeUrl returns '' or the trimmed input without < > " ' `, and it
\* returns a non-empty value only for an absolute http(s) URL or a
\* root-relative path on the same site, '' for every other input.
C7_UrlAllowList ==
    (fn.name = "sanitizeUrl" /\ input.t = "string") =>
        LET trimmed == Trim(input.s)
            accepted == IsAbsoluteHttpUrl(trimmed) \/ IsRootRelativePath(trimmed)
        IN  /\ out.t = "string"
            /\ \/ out.s = <<>>
               \/ out.s = RemoveChars(trimmed, {"<", ">", "\"", "'", "BACKTICK"})
            /\ out.s # <<>> => accepted
            /\ ~accepted => out.s = <<>>

\* the number of commas of s before position i
CommasBefore(s, i) == Cardinality({j \in 1..(i - 1) : s[j] = ","})

\* the k-th comma-separated part of s
TagPart(s, k) ==
    DropRemoved([i \in 1..Len(s) |->
        IF s[i] # "," /\ CommasBefore(s, i) = k - 1 THEN s[i] ELSE Removed])

\* C8: sanitizeTags returns, in their order and with repeats, the first 20
\* of the comma-separated parts' sanitizeText results that have 1 to 50
\* characters.
C8_Tags ==
    (fn.name = "sanitizeTags" /\ input.t = "string") =>
        LET s == input.s
            n == CommasBefore(s, Len(s) + 1) + 1
            texts == [k \in 1..n |-> sanitizeText(Str(TagPart(s, k))).s]
            survivors == {k \in 1..n : Len(texts[k]) >= 1 /\ Len(texts[k]) <= 50}
            rank(k) == Cardinality({j \in survivors : j < k}) + 1
        IN  /\ out.t = "array"
            /\ Len(out.a) = IF Cardinality(survivors) < 20
                            THEN Cardinality(survivors) ELSE 20
            /\ \A k \in survivors : rank(k) <= 20 => out.a[rank(k)] = texts[k]
            /\ \A i \in 1..Len(out.a) : Len(out.a[i]) >= 1 /\ Len(out.a[i]) <= 50

\* C8 witness: more than 20 parts survive and the first 20 are returned,
\* all of them the same tag.
C8_Witness ==
    /\ fn.name = "sanitizeTags"
    /\ input = Str(Rep(<<"a", ",">>, 22))
    /\ Len(out.a) = 20
    /\ out.a[1] = out.a[20]

\* C9: a sanitizer called with null, undefined, '' or a value that is not a
\* string returns '' ([] for sanitizeTags) and does not throw.
C9_EmptyOnNonString ==
    (fn.name \in SanitizerNames /\ (input.t # "string" \/ input.s = <<>>)) =>
        out = IF fn.name = "sanitizeTags" THEN Arr(<<>>) ELSE Str(<<>>)

\* C9 witness: sanitizeTags called with the number 42 returned [].
C9_Witness ==
    /\ fn.name = "sanitizeTags"
    /\ input = Num(<<"4", "2">>)
    /\ out = Arr(<<>>)

\* the number of entries of seq equal to x
Count(seq, x) == Cardinality({i \in 1..Len(seq) : seq[i] = x})

\* C10: validateFileUpload reports one error per failed check and no other:
\* the size error iff size > 10 MiB, the type error iff the type is not one
\* of the five image types, the name error iff sanitizeFileName(name) is
\* empty; isValid iff there is no error; sanitizedName is
\* sanitizeFileName(name).
C10_Upload ==
    fn.name = "validateFileUpload" =>
        LET sizeBad == fn.size > 10 * 1024 * 1024
            typeBad == fn.type \notin {"image/jpeg", "image/jpg", "image/png",
                                       "image/gif", "image/webp"}
            name == sanitizeFileName(input)
            nameBad == name.s = <<>>
            failed == (IF sizeBad THEN 1 ELSE 0) + (IF typeBad THEN 1 ELSE 0)
                        + (IF nameBad THEN 1 ELSE 0)
        IN  /\ Count(out.errors, SizeError) = IF sizeBad THEN 1 ELSE 0
            /\ Count(out.errors, TypeError) = IF typeBad THEN 1 ELSE 0
            /\ Count(out.errors, NameError) = IF nameBad THEN 1 ELSE 0
            /\ Len(out.errors) = failed
            /\ out.isValid = (failed = 0)
            /\ out.sanitizedName = name

\* C10 witness: a file failing all three checks got all three errors.
C10_Witness ==
    /\ fn.name = "validateFileUpload"
    /\ Len(out.errors) = 3

\* the empty value of a schema's sanitizer
EmptyOf(schema) ==
    IF schema.transform = "sanitizeTags" THEN Arr(<<>>) ELSE Str(<<>>)

ExpectedHeader ==
    <<"d", "e", "f", "a", "u", "l", "t", "-", "s", "r", "c", " ", "'", "s",
      "e", "l", "f", "'", ";", " ", "s", "c", "r", "i", "p", "t", "-", "s",
      "r", "c", " ", "'", "s", "e", "l", "f", "'", " ", "'", "u", "n", "s",
      "a", "f", "e", "-", "e", "v", "a", "l", "'", " ", "'", "u", "n", "s",
      "a", "f", "e", "-", "i", "n", "l", "i", "n", "e", "'", " ", "h", "t",
      "t", "p", "s", ":", "/", "/", "v", "e", "r", "c", "e", "l", ".", "l",
      "i", "v", "e", ";", " ", "s", "t", "y", "l", "e", "-", "s", "r", "c",
      " ", "'", "s", "e", "l", "f", "'", " ", "'", "u", "n", "s", "a", "f",
      "e", "-", "i", "n", "l", "i", "n", "e", "'", " ", "h", "t", "t", "p",
      "s", ":", "/", "/", "f", "o", "n", "t", "s", ".", "g", "o", "o", "g",
      "l", "e", "a", "p", "i", "s", ".", "c", "o", "m", ";", " ", "f", "o",
      "n", "t", "-", "s", "r", "c", " ", "'", "s", "e", "l", "f", "'", " ",
      "h", "t", "t", "p", "s", ":", "/", "/", "f", "o", "n", "t", "s", ".",
      "g", "s", "t", "a", "t", "i", "c", ".", "c", "o", "m", " ", "d", "a",
      "t", "a", ":", ";", " ", "i", "m", "g", "-", "s", "r", "c", " ", "'",
      "s", "e", "l", "f", "'", " ", "d", "a", "t", "a", ":", " ", "b", "l",
      "o", "b", ":", " ", "h", "t", "t", "p", "s", ":", ";", " ", "m", "e",
      "d", "i", "a", "-", "s", "r", "c", " ", "'", "s", "e", "l", "f", "'",
      " ", "b", "l", "o", "b", ":", " ", "d", "a", "t", "a", ":", ";", " ",
      "o", "b", "j", "e", "c", "t", "-", "s", "r", "c", " ", "'", "n", "o",
      "n", "e", "'", ";", " ", "f", "r", "a", "m", "e", "-", "s", "r", "c",
      " ", "'", "n", "o", "n", "e", "'", ";", " ", "b", "a", "s", "e", "-",
      "u", "r", "i", " ", "'", "s", "e", "l", "f", "'", ";", " ", "f", "o",
      "r", "m", "-", "a", "c", "t", "i", "o", "n", " ", "'", "s", "e", "l",
      "f", "'", ";", " ", "f", "r", "a", "m", "e", "-", "a", "n", "c", "e",
      "s", "t", "o", "r", "s", " ", "'", "n", "o", "n", "e", "'", ";", " ",
      "u", "p", "g", "r", "a", "d", "e", "-", "i", "n", "s", "e", "c", "u",
      "r", "e", "-", "r", "e", "q", "u", "e", "s", "t", "s">>

\* the number of places at which sub occurs in s
Occurrences(sub, s) ==
    Cardinality({i \in 1..(Len(s) - Len(sub) + 1) :
                    SubSeq(s, i, i + Len(sub) - 1) = sub})

DefaultSrcSelf == CSP_DIRECTIVES[1].directive \o <<" ">> \o SrcSelf

\* C12: every call of buildCSPHeader returns the same string: the directives
\* in insertion order, a directive without sources as its bare name, any
\* other followed by its sources with single spaces between, the clauses
\* joined with "; " and no separator at either end; `default-src 'self'`
\* occurs in it exactly once.
C12_CSPHeader ==
    fn.name = "buildCSPHeader" =>
        /\ out = Str(ExpectedHeader)
        /\ Occurrences(DefaultSrcSelf, out.s) = 1
        /\ Occurrences(<<";", " ">>, out.s) = Len(CSP_DIRECTIVES) - 1
        /\ Occurrences(<<" ", " ">>, out.s) = 0
        /\ out.s[1] \notin {";", " "}
        /\ out.s[Len(out.s)] \notin {";", " "}

\* C12 witness: a call has returned a header whose last clause is the bare
\* name of the directive without sources.
C12_Witness ==
    /\ fn.name = "buildCSPHeader"
    /\ LET last == CSP_DIRECTIVES[Len(CSP_DIRECTIVES)]
       IN  /\ last.sources = <<>>
           /\ Len(out.s) > Len(last.directive)
           /\ SubSeq(out.s, Len(out.s) - Len(last.directive) + 1, Len(out.s))
                = last.directive

\* the calls on identifier that read a clock value in lo..hi and returned true
RECURSIVE AllowedBetween(_, _, _)
AllowedBetween(identifier, lo, hi) ==
    IF lo > hi THEN 0
    ELSE (IF lo \in Times THEN log[identifier][lo] ELSE 0)
         + AllowedBetween(identifier, lo + 1, hi)

\* the calls allowed in the window of entry object o
AllowedInWindowOf(o) ==
    AllowedBetween(o.key, o.obj.resetTime - limit.windowMs, o.obj.resetTime)

\* C13: as long as the calls on an identifier are serialized, no window of
\* that identifier has more than maxAttempts allowed calls; the witness is
\* the other half: two interleaved calls lose an increment and a window has
\* more allowed calls than maxAttempts.
C13_SerializedBound ==
    \A i \in DOMAIN heap :
        ~overlapped[heap[i].key] =>
            /\ AllowedInWindowOf(heap[i]) <= limit.maxAttempts
            /\ heap[i].obj.count <= limit.maxAttempts

\* C13 witness: after calls on one identifier interleaved, its window holds
\* more allowed calls than maxAttempts and its entry counts fewer than were
\* allowed.
C13_Witness ==
    \E identifier \in DOMAIN entries :
        LET o == heap[entries[identifier]]
        IN  /\ overlapped[identifier]
            /\ AllowedInWindowOf(o) > limit.maxAttempts
            /\ o.obj.count < AllowedInWindowOf(o)

\* the entity that stands for a character, or the character itself
EntityOf(c) ==
    CASE c = "&" -> <<"&", "a", "m", "p", ";">>
      [] c = "<" -> <<"&", "l", "t", ";">>
      [] c = ">" -> <<"&", "g", "t", ";">>
      [] c = "\"" -> <<"&", "q", "u", "o", "t", ";">>
      [] c = "'" -> <<"&", "#", "x", "2", "7", ";">>
      [] c = "/" -> <<"&", "#", "x", "2", "F", ";">>
      [] OTHER -> <<c>>

\* s[lo..hi] with every character replaced once by what stands for it
RECURSIVE EscapedOnce(_, _, _)
EscapedOnce(s, lo, hi) ==
    IF lo > hi THEN <<>>
    ELSE IF lo = hi THEN EntityOf(s[lo])
    ELSE LET mid == (lo + hi) \div 2
         IN  EscapedOnce(s, lo, mid) \o EscapedOnce(s, mid + 1, hi)

\* C14: for a string input, the output of sanitizeText has at most 500
\* characters, none of them a raw < > " ' / or a control character 0-8,
\* 11-12, 14-31, 127, and it is the first 500 characters of the trimmed input
\* without its control characters in which each & < > " ' / is replaced by
\* exactly one entity.
C14_SanitizeText ==
    (fn.name = "sanitizeText" /\ input.t = "string") =>
        LET clean == SelectSeq(Trim(input.s), LAMBDA c : c \notin TextControls)
            escaped == EscapedOnce(clean, 1, Len(clean))
        IN  /\ out.t = "string"
            /\ Len(out.s) <= 500
            /\ \A i \in 1..Len(out.s) :
                   out.s[i] \notin {"<", ">", "\"", "'", "/"} \cup TextControls
            /\ out.s = SubSeq(escaped, 1, IF Len(escaped) < 500
                                          THEN Len(escaped) ELSE 500)

\* C14 witness: "a&" a hundred times escapes to 600 characters and comes
\* back as the first 500, ending inside an entity.
C14_Witness ==
    /\ fn.name = "sanitizeText"
    /\ input = Str(Rep(<<"a", "&">>, 100))
    /\ Len(out.s) = 500
    /\ SubSeq(out.s, 497, 500) = <<"p", ";", "a", "&">>

\* reset was called on identifier at a clock reading in lo..hi
ResetBetween(identifier, lo, hi) ==
    \E t \in resets[identifier] : lo <= t /\ t <= hi

\* C15 as stated: in any interval of length windowMs at most 2 x maxAttempts
\* isAllowed calls for one identifier return true.
C15_IntervalBound ==
    \A identifier \in Identifiers, a \in Times :
        AllowedBetween(identifier, a, a + limit.windowMs)
            <= 2 * limit.maxAttempts

\* C15 amended: in any interval of length windowMs during which
\* reset(identifier) is not called, at most 2 x maxAttempts isAllowed calls
\* for that identifier return true.
C15_IntervalBoundNoReset ==
    \A identifier \in Identifiers, a \in Times :
        ~ResetBetween(identifier, a, a + limit.windowMs) =>
            AllowedBetween(identifier, a, a + limit.windowMs)
                <= 2 * limit.maxAttempts

\* C15 witness: a burst across a window boundary: an interval of length
\* windowMs without a reset holds more allowed calls than maxAttempts.
C15_Witness ==
    \E identifier \in Identifiers, a \in Times :
        /\ ~ResetBetween(identifier, a, a + limit.windowMs)
        /\ AllowedBetween(identifier, a, a + limit.windowMs) > limit.maxAttempts

====
